---- MODULE Spec2Model ----
(***************************************************************************)
(* A model of aiolava (src/aiolava/lava.py): the Lava client, its eleven   *)
(* endpoint coroutines and the shared dispatcher Lava._request.            *)
(*                                                                         *)
(* Python values are records [ty, val]; a dict is the sequence of its      *)
(* <<key, value>> items in insertion order; a decoded JSON document is a   *)
(* record [kind, val].  Every call is a coroutine whose position is pc[c]; *)
(* the steps of different calls interleave freely.                         *)
(***************************************************************************)
EXTENDS Integers, Sequences, FiniteSets, TLC

\* ---------------------------------------------------------------- bounds
\* Number of calls that may be in flight against the client at once.
NumCalls == 2

Calls == 1..NumCalls

\* ------------------------------------------------------- python values
NoneV == [ty |-> "none", val |-> "None"]
PyStr(s) == [ty |-> "str", val |-> s]
PyInt(s) == [ty |-> "int", val |-> s]
PyFloat(s) == [ty |-> "float", val |-> s]
PyUrl(s) == [ty |-> "url", val |-> s]

\* The marker a failed pydantic field validation yields.
Invalid == [ty |-> "invalid", val |-> "ValidationError"]

\* A value no parameter type converts from.
PyList(s) == [ty |-> "list", val |-> s]

\* float(x) of a str or an int, on the texts the model feeds to a float
\* parameter: the repr of the float it yields, "" where float() raises
\* ValueError.  The table has no entry for any other text.
FloatOf(s) ==
    CASE s = "0" -> "0.0"
      [] s = "1" -> "1.0"
      [] s = "50" -> "50.0"
      [] s = "100" -> "100.0"
      [] s = "100.0" -> "100.0"
      [] s = "1000.01" -> "1000.01"
      [] s = "1e3" -> "1000.0"
      [] s = " 100 " -> "100.0"
      [] s = "1_000" -> "1000.0"
      [] s = "nan" -> "nan"
      [] s = "inf" -> "inf"
      [] s \in {"abc", "", "12abc"} -> ""

\* int(x) of a str or an int, on the texts the model feeds to an int
\* parameter; "" where int() raises ValueError.
IntOf(s) ==
    CASE s = "0" -> "0"
      [] s = "1" -> "1"
      [] s = "50" -> "50"
      [] s = "100" -> "100"
      [] s = " 100 " -> "100"
      [] s = "1_000" -> "1000"
      [] s \in {"abc", "", "100.0", "1e3", "nan"} -> ""

\* int(x) of a float, which truncates; "" where it raises (nan, inf).
TruncOf(s) ==
    CASE s = "100.0" -> "100"
      [] s = "1000.01" -> "1000"
      [] s = "1.0" -> "1"
      [] s \in {"nan", "inf"} -> ""

\* The scheme and host pydantic's URL pattern finds in the strings the model
\* feeds to an HttpUrl parameter.
UrlParts(s) ==
    CASE s = "https://lava.ru?hook" -> [scheme |-> "https", host |-> "lava.ru"]
      [] s = "https://lava.ru?success" -> [scheme |-> "https", host |-> "lava.ru"]
      [] s = "https://lava.ru?fail" -> [scheme |-> "https", host |-> "lava.ru"]
      [] s = "http://example.com/cb" -> [scheme |-> "http", host |-> "example.com"]
      [] s = "ftp://lava.ru/hook" -> [scheme |-> "ftp", host |-> "lava.ru"]
      [] s = "lava.ru/hook" -> [scheme |-> "", host |-> "lava.ru"]
      [] s = "http://" -> [scheme |-> "http", host |-> ""]

\* HttpUrl accepts an absolute http or https URL with a host.
IsHttpUrl(s) == UrlParts(s).scheme \in {"http", "https"} /\ UrlParts(s).host # ""

\* validate_arguments on one parameter, going wrong: every value is let
\* through as given.
ValidateFieldUnchecked(type, required, v) == v

\* validate_arguments on one parameter (pydantic 1.x): its annotation `type`,
\* whether it has no default (`required`), and the value passed.  A str
\* parameter takes a str, or the str() of an int or a float; a float
\* parameter takes a float as it is, or the float() of a str or an int; an
\* int parameter takes an int as it is, or the int() of a str or a float; an
\* HttpUrl parameter takes an HttpUrl as it is, or a str that is an http(s)
\* URL with a host.  An HttpUrl is a str: a str parameter takes it as it is.
ValidateField(type, required, v) ==
    IF v.ty = "none"
    THEN IF required THEN Invalid ELSE NoneV
    ELSE CASE type = "str" ->
                IF v.ty \in {"str", "url"} THEN v
                ELSE IF v.ty \in {"int", "float"} THEN PyStr(v.val)
                ELSE Invalid
           [] type = "float" ->
                IF v.ty = "float" THEN v
                ELSE IF v.ty \in {"str", "int"} /\ FloatOf(v.val) # ""
                THEN PyFloat(FloatOf(v.val))
                ELSE Invalid
           [] type = "int" ->
                IF v.ty = "int" THEN v
                ELSE IF v.ty = "str" /\ IntOf(v.val) # "" THEN PyInt(IntOf(v.val))
                ELSE IF v.ty = "float" /\ TruncOf(v.val) # ""
                THEN PyInt(TruncOf(v.val))
                ELSE Invalid
           [] type = "url" ->
                IF v.ty = "url" THEN v
                ELSE IF v.ty = "str" /\ IsHttpUrl(v.val) THEN PyUrl(v.val)
                ELSE Invalid
           [] OTHER -> Invalid

\* ------------------------------------------------------------ endpoints
P(name, type, required) == [name |-> name, type |-> type, required |-> required]

\* The endpoint coroutines that take no argument and are not decorated.
NoArgEndpoints == {"test_ping", "wallet_list", "invoice_generate_secret_key"}

\* The signature of each endpoint coroutine, in declaration order.
Signature(e) ==
    CASE e = "withdraw_create" ->
            << P("account", "str", TRUE), P("amount", "float", TRUE),
               P("service", "str", TRUE), P("wallet_to", "str", TRUE),
               P("order_id", "str", FALSE), P("hook_url", "url", FALSE),
               P("substract", "int", FALSE), P("comment", "str", FALSE) >>
      [] e = "withdraw_info" -> << P("id", "str", TRUE) >>
      [] e = "transfer_create" ->
            << P("account_from", "str", TRUE), P("account_to", "str", TRUE),
               P("amount", "float", TRUE), P("subtract", "int", FALSE),
               P("comment", "str", FALSE) >>
      [] e = "transfer_info" -> << P("id", "str", TRUE) >>
      [] e = "transactions_list" ->
            << P("transfer_type", "str", FALSE), P("account", "str", FALSE),
               P("period_start", "str", FALSE), P("period_end", "str", FALSE),
               P("offset", "int", FALSE), P("limit", "int", FALSE) >>
      [] e = "invoice_create" ->
            << P("wallet_to", "str", TRUE), P("sum", "float", TRUE),
               P("order_id", "str", FALSE), P("hook_url", "url", FALSE),
               P("success_url", "url", FALSE), P("fail_url", "url", FALSE),
               P("exprire", "int", FALSE), P("substract", "int", FALSE),
               P("custom_fields", "str", FALSE), P("comment", "str", FALSE),
               P("merchant_id", "str", FALSE), P("merchant_name", "str", FALSE) >>
      [] e = "invoice_info" ->
            << P("id", "str", FALSE), P("order_id", "str", FALSE) >>
      [] e = "invoice_set_webhook" -> << P("url", "url", TRUE) >>
      [] OTHER -> << >>

HttpMethod(e) == IF e \in NoArgEndpoints THEN "GET" ELSE "POST"

Path(e) ==
    CASE e = "test_ping" -> "/test/ping"
      [] e = "wallet_list" -> "/wallet/list"
      [] e = "withdraw_create" -> "/withdraw/create"
      [] e = "withdraw_info" -> "/withdraw/info"
      [] e = "transfer_create" -> "/transfer/create"
      [] e = "transfer_info" -> "/transfer/info"
      [] e = "transactions_list" -> "/transactions/list"
      [] e = "invoice_create" -> "/invoice/create"
      [] e = "invoice_info" -> "/invoice/info"
      [] e = "invoice_set_webhook" -> "/invoice/set-webhook"
      [] e = "invoice_generate_secret_key" -> "/invoice/generate-secret-key"

\* path_prefix + path, as a pair (no string concatenation in TLA+).
path_prefix == "https://api.lava.ru"
FullUrl(e) == << path_prefix, Path(e) >>

\* The arguments of a call after validate_arguments: one validated value per
\* parameter, in declaration order.  `a` is the sequence of values passed.
Validated(e, a) ==
    [i \in 1..Len(Signature(e)) |->
        ValidateField(Signature(e)[i].type, Signature(e)[i].required, a[i])]

\* validate_arguments raises ValidationError when any field is invalid.
ArgsValid(e, a) == \A i \in 1..Len(Signature(e)) : Validated(e, a)[i] # Invalid

\* The dict literal an endpoint body builds: every parameter, set or not.
BuildData(e, a) ==
    [i \in 1..Len(Signature(e)) |-> << Signature(e)[i].name, Validated(e, a)[i] >>]

\* The strip loop of _request, going wrong: unset keys are kept.
StripNoneKeepsAll(d) == d

\* The strip loop of _request, going wrong: a field is added to the dict it
\* was given.
StripNoneAndSign(d) == SelectSeq(d, LAMBDA item : item[2] # NoneV) \o << << "signature", PyStr("sig") >> >>

\* for key in list(data): if data[key] is None: data.pop(key)
NotNone(item) == item[2] # NoneV
StripNone(d) == SelectSeq(d, NotNone)

\* The headers of a request, going wrong: a scheme word is put before the key.
HeadersWithScheme(key) == << << "Authorization", << "Bearer", key >> >> >>

\* headers = {"Authorization": self.api_key}
Headers(key) == << << "Authorization", << key >> >> >>

\* ------------------------------------------------------- the transport
\* What the simulated transport answers: no answer at all (the connection
\* fails), or a response with a Content-Type and a body text.
ConnectionRefused == [up |-> FALSE, ctype |-> "", text |-> ""]
ErrorBody ==
    [up |-> TRUE, ctype |-> "application/json",
     text |-> "{\"status\":\"error\",\"code\":\"E1\",\"message\":\"bad account\"}"]
WalletsBody ==
    [up |-> TRUE, ctype |-> "application/json",
     text |-> "[{\"account\":\"R10000001\",\"currency\":\"RUB\",\"balance\":\"1500.00\"}]"]
SuccessBody ==
    [up |-> TRUE, ctype |-> "application/json",
     text |-> "{\"status\":\"success\",\"id\":\"42\"}"]
HtmlPage ==
    [up |-> TRUE, ctype |-> "text/html",
     text |-> "<html>502 Bad Gateway</html>"]
TruncatedJson ==
    [up |-> TRUE, ctype |-> "application/json", text |-> "{\"status\":"]
EmptyBody == [up |-> TRUE, ctype |-> "application/json", text |-> ""]
BlankBody == [up |-> TRUE, ctype |-> "application/json", text |-> " \n"]
EmptyHtml == [up |-> TRUE, ctype |-> "text/html", text |-> ""]
SuccessCharset ==
    [up |-> TRUE, ctype |-> "application/json; charset=utf-8",
     text |-> "{\"status\":\"success\",\"id\":\"42\"}"]
SuccessApiJson ==
    [up |-> TRUE, ctype |-> "application/vnd.api+json",
     text |-> "{\"status\":\"success\",\"id\":\"42\"}"]
NoResponse == [up |-> FALSE, ctype |-> "", text |-> "-"]

Responses ==
    {ConnectionRefused, ErrorBody, WalletsBody, SuccessBody, HtmlPage, TruncatedJson,
     EmptyBody, BlankBody, EmptyHtml, SuccessCharset, SuccessApiJson}

\* Decoded JSON documents: a dict is [kind |-> "dict", val |-> its items], a
\* list is [kind |-> "list", val |-> its elements].
JsonDict(items) == [kind |-> "dict", val |-> items]
JsonList(elems) == [kind |-> "list", val |-> elems]
JsonUndecodable == [kind |-> "undecodable", val |-> << >>]

\* None, which ClientResponse.json() returns for a body with nothing in it.
JsonNone == [kind |-> "None", val |-> << >>]
NoJson == [kind |-> "nothing", val |-> << >>]

\* typing.Dict, the object the dispatcher compares the decoded body with.
TypingDict == [kind |-> "typing.Dict", val |-> << >>]

\* json.loads on the body texts of the simulated transport.
JsonLoads(text) ==
    CASE text = ErrorBody.text ->
            JsonDict(<< << "status", "error" >>, << "code", "E1" >>,
                        << "message", "bad account" >> >>)
      [] text = WalletsBody.text ->
            JsonList(<< JsonDict(<< << "account", "R10000001" >>,
                                    << "currency", "RUB" >>,
                                    << "balance", "1500.00" >> >>) >>)
      [] text = SuccessBody.text ->
            JsonDict(<< << "status", "success" >>, << "id", "42" >> >>)
      [] text \in {HtmlPage.text, TruncatedJson.text} -> JsonUndecodable

\* ------------------------------------------------------------- outcomes
\* How a call ends: a returned value or a raised exception.
NoOutcome == [kind |-> "none", exc |-> "", msg |-> << >>, value |-> NoJson]
Return(v) == [kind |-> "return", exc |-> "", msg |-> << >>, value |-> v]
Raise(exc, msg) == [kind |-> "raise", exc |-> exc, msg |-> msg, value |-> NoJson]

\* aiohttp's test of the Content-Type header against application/json: the
\* pattern ^application/(?:[\w.+-]+?\+)?json, on the headers of the simulated
\* transport.
IsJsonContentType(ctype) ==
    CASE ctype \in {"application/json", "application/json; charset=utf-8",
                    "application/vnd.api+json"} -> TRUE
      [] ctype \in {"text/html", ""} -> FALSE

\* body.strip() is empty, on the body texts of the simulated transport.
IsBlank(text) ==
    CASE text \in {"", " \n"} -> TRUE
      [] text \in {ErrorBody.text, WalletsBody.text, SuccessBody.text,
                   HtmlPage.text, TruncatedJson.text} -> FALSE

\* await responce.json(): aiohttp raises ContentTypeError when the
\* Content-Type is not JSON, returns None when the stripped body is empty,
\* and otherwise hands the stripped text to json.loads.
ResponseJson(r) ==
    IF ~IsJsonContentType(r.ctype) THEN Raise("ContentTypeError", << >>)
    ELSE IF IsBlank(r.text) THEN Return(JsonNone)
    ELSE IF JsonLoads(r.text).kind = "undecodable"
         THEN Raise("JSONDecodeError", << >>)
         ELSE Return(JsonLoads(r.text))

\* `a is b`: two names of one object.  A decoded document never is the
\* typing.Dict object, whose kind no decoded document has.
PyIs(a, b) == a.kind = b.kind /\ a = b

HasKey(d, k) == \E i \in 1..Len(d.val) : d.val[i][1] = k
Lookup(d, k) == d.val[CHOOSE i \in 1..Len(d.val) : d.val[i][1] = k][2]

\* The dispatcher's classification, going wrong: the decoded body is
\* wrapped before it is handed back.
ClassifyWrapped(result) == Return(JsonDict(<< << "data", "wrapped" >> >>))

\* if result is Dict and result.get("status") == "error":
\*     raise LavaError(f'{result["code"]}: {result["messge"]}')
\* else: return result
Classify(result) ==
    IF PyIs(result, TypingDict)
    THEN IF result.kind # "dict"
         THEN Raise("TypeError", << "get" >>)
         ELSE IF HasKey(result, "status") /\ Lookup(result, "status") = "error"
              THEN IF ~HasKey(result, "code") THEN Raise("KeyError", << "code" >>)
                   ELSE IF ~HasKey(result, "messge")
                        THEN Raise("KeyError", << "messge" >>)
                        ELSE Raise("LavaError", << Lookup(result, "code"),
                                                   Lookup(result, "messge") >>)
              ELSE Return(result)
    ELSE Return(result)

\* The body of the `async with session.request(...)` block, from the
\* response to the value or exception that leaves the block.
Dispatch(r) ==
    IF ResponseJson(r).kind = "raise" THEN ResponseJson(r)
    ELSE Classify(ResponseJson(r).value)

\* --------------------------------------------------------------- inputs
Keys == {"jwt-A", "jwt-B"}
NoKey == "<no client>"

GoodValues(type) ==
    CASE type = "str" -> {PyStr("R10000001")}
      [] type = "float" -> {PyFloat("100.0"), PyInt("100"), PyStr("1000.01")}
      [] type = "int" -> {PyInt("1")}
      [] type = "url" -> {PyStr("https://lava.ru?hook")}

BadValues(type) ==
    CASE type = "float" -> {PyStr("abc"), PyStr(""), PyStr("12abc"), PyList("[]")}
      [] type = "url" -> {PyStr("lava.ru/hook"), PyStr("ftp://lava.ru/hook"),
                          PyStr("http://")}
      [] OTHER -> {}

OneGood(type) == CHOOSE v \in GoodValues(type) : TRUE

\* Every way of calling a signature with well-formed values: each required
\* parameter given, each optional parameter given or left at its None default.
RECURSIVE WellFormed(_)
WellFormed(sig) ==
    IF sig = << >> THEN {<< >>}
    ELSE LET p == Head(sig)
             vs == IF p.required THEN GoodValues(p.type)
                   ELSE {NoneV, OneGood(p.type)}
         IN  {<< v >> \o rest : v \in vs, rest \in WellFormed(Tail(sig))}

\* The call with every parameter given, and the call with only the required.
AllGiven(e) == [i \in 1..Len(Signature(e)) |-> OneGood(Signature(e)[i].type)]
OnlyRequired(e) ==
    [i \in 1..Len(Signature(e)) |->
        IF Signature(e)[i].required THEN OneGood(Signature(e)[i].type) ELSE NoneV]

\* One of those two calls with one parameter replaced by a malformed value.
Malformed(e) ==
    UNION {{[base EXCEPT ![i] = bad] : bad \in BadValues(Signature(e)[i].type)} :
              base \in {AllGiven(e), OnlyRequired(e)},
              i \in 1..Len(Signature(e))}

\* Values of another type or spelling that a parameter type converts.
OddValues(type) ==
    CASE type = "str" -> {PyInt("1"), PyFloat("100.0"), PyUrl("https://lava.ru?hook")}
      [] type = "float" -> {PyInt("1"), PyStr("nan"), PyStr(" 100 "), PyStr("1e3")}
      [] type = "int" -> {PyFloat("100.0"), PyStr("100"), PyStr("1_000")}
      [] type = "url" -> {PyStr("https://lava.ru?success"), PyStr("http://example.com/cb"),
                          PyUrl("https://lava.ru?hook"), PyUrl("http://example.com/cb")}

\* The call with only the required parameters, one parameter replaced by a
\* value its type converts.
Converted(e) ==
    UNION {{[OnlyRequired(e) EXCEPT ![i] = odd] : odd \in OddValues(Signature(e)[i].type)} :
              i \in 1..Len(Signature(e))}

\* The calls of the single-call specification: every well-formed call, the
\* malformed ones and the converted ones.
AllInputs(e) == WellFormed(Signature(e)) \cup Malformed(e) \cup Converted(e)

\* The calls of the concurrent specification: invoice_info by id alone, and
\* invoice_set_webhook with a well-formed and with a malformed url.
FewInputs(e) ==
    CASE e = "invoice_info" -> {<< PyStr("R10000001"), NoneV >>}
      [] e = "invoice_set_webhook" ->
            {<< PyStr("https://lava.ru?hook") >>, << PyStr("lava.ru/hook") >>}
      [] OTHER -> {OnlyRequired(e), AllGiven(e)}

\* ---------------------------------------------------------------- state
VARIABLES
    api_key,    \* Lava.api_key, NoKey before __init__
    given_key,  \* the api_key argument __init__ was called with
    defaults,   \* the dict that is the default of _request's `data`
    pc,         \* pc[c]: where call c is
    ep,         \* ep[c]: the endpoint coroutine call c runs
    args,       \* args[c]: the arguments call c was made with
    data,       \* data[c]: the dict literal call c's endpoint body built
    shared,     \* shared[c]: _request's `data` is the default dict
    session,    \* session[c]: the ClientSession of call c, 0 for none
    open,       \* the ClientSessions not closed yet
    sent,       \* sent[c]: the HTTP requests call c handed to the transport
    response,   \* response[c]: what the transport answered call c
    pending,    \* pending[c]: the value or exception leaving the with blocks
    outcome     \* outcome[c]: what the caller of call c got

vars == << api_key, given_key, defaults, pc, ep, args, data, shared, session,
           open, sent, response, pending, outcome >>

callvars == << pc, ep, args, data, shared, session, open, sent, response,
               pending, outcome >>

Init ==
    /\ api_key = NoKey
    /\ given_key = NoKey
    /\ defaults = << >>
    /\ pc = [c \in Calls |-> "idle"]
    /\ ep = [c \in Calls |-> "-"]
    /\ args = [c \in Calls |-> << >>]
    /\ data = [c \in Calls |-> << >>]
    /\ shared = [c \in Calls |-> FALSE]
    /\ session = [c \in Calls |-> 0]
    /\ open = {}
    /\ sent = [c \in Calls |-> << >>]
    /\ response = [c \in Calls |-> NoResponse]
    /\ pending = [c \in Calls |-> NoOutcome]
    /\ outcome = [c \in Calls |-> NoOutcome]

\* Lava.__init__(api_key)
LavaInit(key) ==
    /\ api_key = NoKey
    /\ api_key' = key
    /\ given_key' = key
    /\ UNCHANGED << defaults, callvars >>

\* Calling an endpoint coroutine function: validate_arguments checks the
\* arguments at once and raises ValidationError, or the coroutine is created.
Invoke(c, e, a) ==
    /\ api_key # NoKey
    /\ pc[c] = "idle"
    /\ ep' = [ep EXCEPT ![c] = e]
    /\ args' = [args EXCEPT ![c] = a]
    /\ IF ArgsValid(e, a)
       THEN /\ pc' = [pc EXCEPT ![c] = "start"]
            /\ UNCHANGED outcome
       ELSE /\ pc' = [pc EXCEPT ![c] = "done"]
            /\ outcome' = [outcome EXCEPT ![c] = Raise("ValidationError", << >>)]
    /\ UNCHANGED << api_key, given_key, defaults, data, shared, session, open,
                    sent, response, pending >>

\* The three undecorated coroutines: nothing to validate.
test_ping(c) ==
    /\ pc[c] = "idle"
    /\ Invoke(c, "test_ping", << >>)

wallet_list(c) ==
    /\ pc[c] = "idle"
    /\ Invoke(c, "wallet_list", << >>)

invoice_generate_secret_key(c) ==
    /\ pc[c] = "idle"
    /\ Invoke(c, "invoice_generate_secret_key", << >>)

\* The eight decorated coroutines, called with one of `inputs`.
withdraw_create(c, inputs) ==
    /\ pc[c] = "idle"
    /\ \E a \in inputs : Invoke(c, "withdraw_create", a)

withdraw_info(c, inputs) ==
    /\ pc[c] = "idle"
    /\ \E a \in inputs : Invoke(c, "withdraw_info", a)

transfer_create(c, inputs) ==
    /\ pc[c] = "idle"
    /\ \E a \in inputs : Invoke(c, "transfer_create", a)

transfer_info(c, inputs) ==
    /\ pc[c] = "idle"
    /\ \E a \in inputs : Invoke(c, "transfer_info", a)

transactions_list(c, inputs) ==
    /\ pc[c] = "idle"
    /\ \E a \in inputs : Invoke(c, "transactions_list", a)

invoice_create(c, inputs) ==
    /\ pc[c] = "idle"
    /\ \E a \in inputs : Invoke(c, "invoice_create", a)

invoice_info(c, inputs) ==
    /\ pc[c] = "idle"
    /\ \E a \in inputs : Invoke(c, "invoice_info", a)

invoice_set_webhook(c, inputs) ==
    /\ pc[c] = "idle"
    /\ \E a \in inputs : Invoke(c, "invoice_set_webhook", a)

\* The dict _request works on, going wrong: the dict is kept on the client
\* object, where the call that stored one last wins.
DataOfClient(c) ==
    LET others == {d \in Calls \ {c} : pc[d] \in {"session", "send", "wait", "json", "close"}
                                        /\ ~shared[d]}
    IN  IF shared[c] THEN defaults
        ELSE IF others = {} THEN data[c]
        ELSE data[CHOOSE d \in others : TRUE]

\* The dict _request works on: the shared default or the call's own literal.
DataOf(c) == IF shared[c] THEN defaults ELSE data[c]

\* The endpoint body up to the first suspension of _request: the dict literal
\* is built (none for the three GET endpoints, which leave `data` at its
\* default), and the strip loop pops the unset keys from it, in place.
Request_strip(c) ==
    /\ pc[c] = "start"
    /\ shared' = [shared EXCEPT ![c] = ep[c] \in NoArgEndpoints]
    /\ IF ep[c] \in NoArgEndpoints
       THEN /\ defaults' = StripNone(defaults)
            /\ UNCHANGED data
       ELSE /\ data' = [data EXCEPT ![c] = StripNone(BuildData(ep[c], args[c]))]
            /\ UNCHANGED defaults
    /\ pc' = [pc EXCEPT ![c] = "session"]
    /\ UNCHANGED << api_key, given_key, ep, args, session, open, sent, response,
                    pending, outcome >>

\* aiohttp.ClientSession(): a new object each time it is evaluated, named
\* here after the call that evaluates it.
NewSession(c) == c

\* async with aiohttp.ClientSession() as session
Request_session(c) ==
    /\ pc[c] = "session"
    /\ session' = [session EXCEPT ![c] = NewSession(c)]
    /\ open' = open \cup {NewSession(c)}
    /\ pc' = [pc EXCEPT ![c] = "send"]
    /\ UNCHANGED << api_key, given_key, defaults, ep, args, data, shared, sent,
                    response, pending, outcome >>

\* The request call c hands to the transport.
RequestOf(c) ==
    [method |-> HttpMethod(ep[c]), url |-> FullUrl(ep[c]),
     headers |-> Headers(api_key), data |-> DataOf(c)]

\* Where a call goes after its request, going wrong: a failed connection
\* is tried again.
AfterSendRetry(r) == IF r.up THEN "json" ELSE "send"

\* Where a call goes after its request: on to the body, or, the connection
\* having failed, out of the with block with the exception.
AfterSend(r) == IF r.up THEN "json" ELSE "close"

\* session.request(method, url, headers=headers, data=data): the request is
\* handed to the transport, once, and the coroutine waits for the answer.
Request_send(c) ==
    /\ pc[c] = "send"
    /\ sent' = [sent EXCEPT ![c] = Append(@, RequestOf(c))]
    /\ pc' = [pc EXCEPT ![c] = "wait"]
    /\ UNCHANGED << api_key, given_key, defaults, ep, args, data, shared,
                    session, open, response, pending, outcome >>

\* The coroutine is resumed: the transport has answered with `r`, or the
\* connection has failed and ClientConnectorError leaves the with block.
Request_answer(c, r) ==
    /\ pc[c] = "wait"
    /\ response' = [response EXCEPT ![c] = r]
    /\ pc' = [pc EXCEPT ![c] = AfterSend(r)]
    /\ pending' = [pending EXCEPT ![c] =
                      IF r.up THEN @ ELSE Raise("ClientConnectorError", << >>)]
    /\ UNCHANGED << api_key, given_key, defaults, ep, args, data, shared,
                    session, open, sent, outcome >>

\* result = await responce.json(), the check of result, and the exit of the
\* response's with block.
Request_json(c) ==
    /\ pc[c] = "json"
    /\ pending' = [pending EXCEPT ![c] = Dispatch(response[c])]
    /\ pc' = [pc EXCEPT ![c] = "close"]
    /\ UNCHANGED << api_key, given_key, defaults, ep, args, data, shared,
                    session, open, sent, response, outcome >>

\* The sessions left open by the exit of the with block, going wrong: the
\* session is closed on a return only, not when an exception passes.
OpenAfterExitOnReturn(c) ==
    IF pending[c].kind = "raise" THEN open ELSE open \ {session[c]}

\* The sessions left open by the exit of the with block: __aexit__ closes the
\* call's session whether a value or an exception leaves the block.
OpenAfterExit(c) == open \ {session[c]}

\* The exit of `async with aiohttp.ClientSession()`: the session is closed
\* and the value or exception reaches the caller.
Request_close(c) ==
    /\ pc[c] = "close"
    /\ open' = OpenAfterExit(c)
    /\ session' = [session EXCEPT ![c] = 0]
    /\ outcome' = [outcome EXCEPT ![c] = pending[c]]
    /\ pc' = [pc EXCEPT ![c] = "done"]
    /\ UNCHANGED << api_key, given_key, defaults, ep, args, data, shared,
                    sent, response, pending >>

\* The caller takes the outcome; the coroutine and its locals are gone.
Collect(c) ==
    /\ pc[c] = "done"
    /\ pc' = [pc EXCEPT ![c] = "idle"]
    /\ ep' = [ep EXCEPT ![c] = "-"]
    /\ args' = [args EXCEPT ![c] = << >>]
    /\ data' = [data EXCEPT ![c] = << >>]
    /\ shared' = [shared EXCEPT ![c] = FALSE]
    /\ session' = [session EXCEPT ![c] = 0]
    /\ sent' = [sent EXCEPT ![c] = << >>]
    /\ response' = [response EXCEPT ![c] = NoResponse]
    /\ pending' = [pending EXCEPT ![c] = NoOutcome]
    /\ outcome' = [outcome EXCEPT ![c] = NoOutcome]
    /\ UNCHANGED << api_key, given_key, defaults, open >>

\* The responses of the concurrent specification: one per way out of
\* _request.
FewResponses == {ConnectionRefused, ErrorBody, WalletsBody, HtmlPage}

\* Any number of calls in flight on the client, each one of the three GET
\* endpoints or one of two POST endpoints, made one of a few ways.
Next ==
    \/ \E key \in Keys : LavaInit(key)
    \/ \E c \in Calls : test_ping(c)
    \/ \E c \in Calls : wallet_list(c)
    \/ \E c \in Calls : invoice_info(c, FewInputs("invoice_info"))
    \/ \E c \in Calls : invoice_set_webhook(c, FewInputs("invoice_set_webhook"))
    \/ \E c \in Calls : invoice_generate_secret_key(c)
    \/ \E c \in Calls : Request_strip(c)
    \/ \E c \in Calls : Request_session(c)
    \/ \E c \in Calls : Request_send(c)
    \/ \E c \in Calls : \E r \in FewResponses : Request_answer(c, r)
    \/ \E c \in Calls : Request_json(c)
    \/ \E c \in Calls : Request_close(c)
    \/ \E c \in Calls : Collect(c)

Spec == Init /\ [][Next]_vars

\* One call at a time, on any endpoint, made every way the inputs allow and
\* answered every way the transport can.
NextOne ==
    \/ \E key \in Keys : LavaInit(key)
    \/ test_ping(1)
    \/ wallet_list(1)
    \/ withdraw_create(1, AllInputs("withdraw_create"))
    \/ withdraw_info(1, AllInputs("withdraw_info"))
    \/ transfer_create(1, AllInputs("transfer_create"))
    \/ transfer_info(1, AllInputs("transfer_info"))
    \/ transactions_list(1, AllInputs("transactions_list"))
    \/ invoice_create(1, AllInputs("invoice_create"))
    \/ invoice_info(1, AllInputs("invoice_info"))
    \/ invoice_set_webhook(1, AllInputs("invoice_set_webhook"))
    \/ invoice_generate_secret_key(1)
    \/ Request_strip(1)
    \/ Request_session(1)
    \/ Request_send(1)
    \/ \E r \in Responses : Request_answer(1, r)
    \/ Request_json(1)
    \/ Request_close(1)
    \/ Collect(1)

SpecOne == Init /\ [][NextOne]_vars

\* ------------------------------------------------------------ properties
InFlight(c) == pc[c] \in {"send", "wait", "json", "close"}

\* The names of the parameters a call was given a value for, in order.
Keys_(d) == [i \in 1..Len(d) |-> d[i][1]]
SuppliedKeys(e, a) ==
    Keys_(SelectSeq([i \in 1..Len(Signature(e)) |-> << Signature(e)[i].name, a[i] >>],
                    LAMBDA item : item[2].ty # "none"))

\* A call passes a malformed URL to a URL parameter or a non-numeric value to
\* a float parameter (amount, sum).
HasMalformed(e, a) ==
    \E i \in 1..Len(Signature(e)) :
        /\ Signature(e)[i].type \in {"url", "float"}
        /\ a[i] \in BadValues(Signature(e)[i].type)

\* The response bodies that are not JSON.
NonJson == {HtmlPage, TruncatedJson, EmptyBody, BlankBody, EmptyHtml}

\* The request and the outcome of a call made alone on a fresh client.
AloneRequest(e, a, key) ==
    [method |-> HttpMethod(e), url |-> FullUrl(e), headers |-> Headers(key),
     data |-> IF e \in NoArgEndpoints THEN << >> ELSE StripNone(BuildData(e, a))]
AloneOutcome(e, a, r) ==
    IF ~ArgsValid(e, a) THEN Raise("ValidationError", << >>)
    ELSE IF ~r.up THEN Raise("ClientConnectorError", << >>)
    ELSE Dispatch(r)

\* A step of call c's coroutine.
StepOf(c) ==
    \/ Request_strip(c)
    \/ Request_session(c)
    \/ Request_send(c)
    \/ \E r \in FewResponses : Request_answer(c, r)
    \/ Request_json(c)
    \/ Request_close(c)

\* C1: when the transport answers {"status":"error","code":"E1","message":
\* "bad account"}, the call ends by raising LavaError carrying code "E1" and
\* message "bad account", and returns no value.
C1_ErrorBodyRaisesLavaError ==
    \A c \in Calls :
        (pc[c] = "done" /\ response[c] = ErrorBody)
            => outcome[c] = Raise("LavaError", << "E1", "bad account" >>)

\* C2: the parameter mapping handed to the HTTP request holds no key whose
\* value is None; its keys are exactly those of the parameters given a value.
C2_UnsetOptionalsNotTransmitted ==
    \A c \in Calls : \A i \in 1..Len(sent[c]) :
        /\ \A k \in 1..Len(sent[c][i].data) : sent[c][i].data[k][2].ty # "none"
        /\ Keys_(sent[c][i].data) = SuppliedKeys(ep[c], args[c])

\* A create-invoice call with some optionals given and some left unset has
\* sent its request.
C2_Witness ==
    /\ ep[1] = "invoice_create"
    /\ Len(sent[1]) = 1
    /\ args[1][3].ty = "none" /\ args[1][4].ty # "none" /\ args[1][12].ty = "none"
    /\ Len(sent[1][1].data) < 12

\* C3: a call passing a malformed URL or a non-numeric amount/sum ends at
\* once with a ValidationError, having sent no HTTP request and opened no
\* session.
C3_MalformedRejectedBeforeNetwork ==
    \A c \in Calls :
        (pc[c] # "idle" /\ HasMalformed(ep[c], args[c]))
            => /\ pc[c] = "done"
               /\ outcome[c] = Raise("ValidationError", << >>)
               /\ sent[c] = << >>
               /\ session[c] = 0
               /\ c \notin open

\* A create-withdrawal call with a non-numeric amount has been rejected.
C3_Witness ==
    /\ ep[1] = "withdraw_create"
    /\ args[1][2] = PyStr("abc")
    /\ pc[1] = "done"
    /\ outcome[1].exc = "ValidationError"

\* C4: when the response body is not JSON, the call ends by raising the HTTP
\* library's decode error; it raises no LavaError and returns no value.
C4_NonJsonRaisesDecodeError ==
    \A c \in Calls :
        (pc[c] \in {"close", "done"} /\ response[c] \in NonJson)
            => /\ pending[c].kind = "raise"
               /\ pending[c].exc \in {"ContentTypeError", "JSONDecodeError"}
               /\ pc[c] = "done" => outcome[c] = pending[c]

\* What the code does on a body that is not JSON: it raises the decode error
\* unless the body is empty or blank under a JSON Content-Type, and then it
\* returns None.
NonJsonRaisesUnlessBlank ==
    \A c \in Calls :
        (pc[c] = "done" /\ response[c] \in NonJson)
            => IF response[c] \in {EmptyBody, BlankBody}
               THEN outcome[c] = Return(JsonNone)
               ELSE /\ outcome[c].kind = "raise"
                    /\ outcome[c].exc \in {"ContentTypeError", "JSONDecodeError"}

\* C5: when the decoded body does not signal failure (a sequence, or a
\* mapping whose status is not "error"), the call returns exactly that body.
C5_BodyReturnedUnchanged ==
    \A c \in Calls :
        (pc[c] = "done"
            /\ response[c] \in {WalletsBody, SuccessBody, SuccessCharset, SuccessApiJson})
            => /\ outcome[c].kind = "return"
               /\ outcome[c].value.kind = JsonLoads(response[c].text).kind
               /\ outcome[c].value = JsonLoads(response[c].text)

\* wallet_list has returned the list of wallets the transport answered.
C5_Witness ==
    /\ pc[1] = "done"
    /\ ep[1] = "wallet_list"
    /\ response[1] = WalletsBody
    /\ outcome[1].kind = "return"
    /\ outcome[1].value.kind = "list"
    /\ outcome[1].value.val[1].val[1] = << "account", "R10000001" >>

\* C6: whatever the interleaving of concurrent calls, each call can always
\* take its next step, and the request it sends and the outcome it ends with
\* are those of the same call made alone.
C6_NoCrossCallInterference ==
    \A c \in Calls :
        /\ pc[c] \notin {"idle", "done"} => ENABLED StepOf(c)
        /\ \A i \in 1..Len(sent[c]) :
              sent[c][i] = AloneRequest(ep[c], args[c], given_key)
        /\ pc[c] = "done" => outcome[c] = AloneOutcome(ep[c], args[c], response[c])

\* One call has ended, having been answered, while another, on another
\* endpoint, has its request out and no answer yet.
C6_Witness ==
    \E c, d \in Calls :
        /\ c # d
        /\ pc[c] = "done" /\ ep[c] = "invoice_info" /\ response[c] = WalletsBody
        /\ pc[d] = "wait" /\ ep[d] = "invoice_set_webhook" /\ Len(sent[d]) = 1
        /\ response[d] = NoResponse

\* C7: every call in the dispatcher has a session of its own, and the open
\* sessions are exactly those of the calls between session-open and exit:
\* a call that has ended, by a return or by any exception, left none open.
C7_SessionScopedToCall ==
    /\ \A c, d \in Calls : (c # d /\ session[c] # 0) => session[c] # session[d]
    /\ \A c \in Calls : InFlight(c) <=> session[c] # 0
    /\ open = {session[c] : c \in {d \in Calls : InFlight(d)}}
    /\ (\A c \in Calls : pc[c] \in {"idle", "done"}) => open = {}

\* A call has ended with a decode error, its session closed, while another
\* call's session is open.
C7_Witness ==
    \E c, d \in Calls :
        /\ c # d
        /\ pc[c] = "done" /\ outcome[c].exc = "ContentTypeError"
        /\ session[d] \in open
        /\ Cardinality(open) = 1

\* C8: a validated call hands exactly one request to the transport, whatever
\* the answer, and ends with exactly one outcome, a return or a raise.
C8_OneAttemptOneOutcome ==
    \A c \in Calls :
        /\ Len(sent[c]) <= 1
        /\ pc[c] \in {"wait", "json", "close"} => Len(sent[c]) = 1
        /\ pc[c] \in {"idle", "start", "session", "send"} => Len(sent[c]) = 0
        /\ (pc[c] = "done" /\ ArgsValid(ep[c], args[c]))
              => Len(sent[c]) = 1 /\ outcome[c].kind \in {"return", "raise"}
        /\ pc[c] # "done" => outcome[c] = NoOutcome

\* A call whose connection failed has ended with that one failed attempt.
C8_Witness ==
    \E c \in Calls :
        /\ pc[c] = "done"
        /\ response[c] = ConnectionRefused
        /\ Len(sent[c]) = 1
        /\ outcome[c].exc = "ClientConnectorError"

\* C9: the stored credential stays the string given at construction, every
\* request sent carries exactly that string as its Authorization header, and
\* construction sends no request.
C9_CredentialFixedAndSent ==
    /\ [](/\ api_key = given_key
          /\ \A c \in Calls : \A i \in 1..Len(sent[c]) :
                sent[c][i].headers = << << "Authorization", << given_key >> >> >>)
    /\ [][api_key # NoKey => api_key' = api_key]_vars
    /\ [][api_key # api_key' => (sent' = sent /\ open' = open /\ pc' = pc)]_vars

\* A failed call and a successful one have both sent their requests under
\* the key "jwt-B".
C9_Witness ==
    \E c, d \in Calls :
        /\ api_key = "jwt-B"
        /\ pc[c] = "done" /\ outcome[c].kind = "raise" /\ Len(sent[c]) = 1
        /\ pc[d] = "done" /\ outcome[d].kind = "return" /\ Len(sent[d]) = 1

\* C10: the three no-argument calls work on the one default dict, which is
\* empty after any interleaving of calls, so each transmits an empty body.
C10_DefaultDictStaysEmpty ==
    /\ defaults = << >>
    /\ \A c \in Calls :
          /\ pc[c] \notin {"idle", "start"} /\ sent[c] # << >>
                => (shared[c] <=> ep[c] \in NoArgEndpoints)
          /\ ep[c] \in NoArgEndpoints
                => \A i \in 1..Len(sent[c]) : sent[c][i].data = << >>

\* test_ping has sent its request after a POST call stripped and sent its
\* own parameters.
C10_Witness ==
    \E c, d \in Calls :
        /\ ep[c] = "test_ping" /\ Len(sent[c]) = 1 /\ shared[c]
        /\ ep[d] = "invoice_info" /\ Len(sent[d]) = 1 /\ Len(data[d]) = 1

====
